---- MODULE Spec2Model ----
(***************************************************************************)
(* The video router (src/server/api/routers/video.ts): the like ledger,    *)
(* the feed and its paging, userLikes, createMetadata.                     *)
(*                                                                         *)
(* The store is PostgreSQL behind Prisma.  Every request is handled by its *)
(* own run of a handler, concurrently with the other requests; every       *)
(* `await` of a handler is one step.  Statements issued through `tx`       *)
(* inside `ctx.db.$transaction` write to the transaction's pending set,    *)
(* take the row locks PostgreSQL takes, and become visible to the other    *)
(* requests at COMMIT only; an exception thrown inside the callback rolls  *)
(* the pending set back.  An exception that is not a TRPCError leaves the  *)
(* procedure as INTERNAL_SERVER_ERROR.                                     *)
(***************************************************************************)
EXTENDS Integers, FiniteSets, Sequences, TLC

\* ---------------------------------------------------------------- bounds
NumUsers    == 2
NumVideos   == 2
NumRequests == 2
RaceCalls   == 3

User    == 1..NumUsers
VideoId == 1..NumVideos
Pair    == User \X VideoId

\* The caller and the video of the concurrent-call scenarios.
RaceUser  == CHOOSE u \in User : \A w \in User : u <= w
RaceVideo == CHOOSE v \in VideoId : \A w \in VideoId : v <= w

VARIABLES
    videos,           \* ids of the Video rows
    likeRows,         \* committed Like rows: number of rows per (userId, videoId)
    likeCount,        \* committed Video.likeCount per video id
    pc,               \* per request: position in the handler that runs it
    req,              \* per request: procedure, caller and input
    tx,               \* per request: pending (uncommitted) writes of its transaction
    result,           \* per request: its outcome
    stage,            \* per request: the statement at which it ended
    likeCountBefore,  \* likeCount before the requests
    createdAt,        \* Video.createdAt per video id (for an id not in videos
                      \* yet: the time its row gets when it is created)
    resp,             \* per request: the data a query returned
    videoRow,         \* owner (userId) and url of the Video row per video id
    upload,           \* the upload form (UploadForm.tsx)
    card,             \* a video card of the feed page (VideoCard.tsx)
    view              \* the feed page (Feed.tsx)

vars == <<videos, likeRows, likeCount, pc, req, tx, result, stage, likeCountBefore,
          createdAt, resp, videoRow, upload, card, view>>

\* the state of the browser
clientVars == <<upload, card, view>>

Requests == DOMAIN pc

NoReq == [kind |-> "none", userId |-> 0, videoId |-> 0]
\* like: rows of the request's pair inserted (+1) or deleted (-1), uncommitted;
\* upd/count: the Video row is updated, uncommitted, to likeCount = count
NoTx  == [like |-> 0, upd |-> FALSE, count |-> 0]
NoResp == [kind |-> "none"]
NoVideoRow == [userId |-> 0, url |-> 0]

\* The urls of uploads: /api/upload/presign makes a new one for every request.
MaxSubmits == NumVideos + 1
Url        == 1..MaxSubmits
FirstUrl   == CHOOSE x \in Url : \A y \in Url : x <= y

\* Rows the first user has uploaded before, each under a url of its own.
SeedRows(vs) ==
    [v \in VideoId |-> IF v \in vs THEN [userId |-> RaceUser, url |-> 0 - v]
                                   ELSE NoVideoRow]

\* no page of the browser is open
NoUpload == [pc |-> "none"]
NoCard   == [pc |-> "none"]
NoView   == [pc |-> "none"]
ClientIdle == upload = NoUpload /\ card = NoCard /\ view = NoView

InTx == {"like_create", "like_update", "like_commit",
         "unlike_delete", "unlike_update", "unlike_commit"}

\* ------------------------------------------------------------ the store
RECURSIVE SumRows(_, _, _)
SumRows(rows, us, v) ==
    IF us = {} THEN 0
    ELSE LET u == CHOOSE x \in us : TRUE
         IN  rows[<<u, v>>] + SumRows(rows, us \ {u}, v)

\* count(Like rows referencing video v)
RowsOf(rows, v) == SumRows(rows, User, v)

\* ctx.db.like.findUnique({ where: { userId_videoId } }): reads committed rows
ExistingLike_Missing(u, v) == FALSE
ExistingLike_AnyVideo(u, v) == \E w \in VideoId : likeRows[<<u, w>>] > 0
ExistingLike(u, v) == likeRows[<<u, v>>] > 0

\* unique constraint on Like(userId, videoId): tx.like.create is rejected
UniqueViolation_Ignored(u, v) == FALSE
UniqueViolation(u, v) == likeRows[<<u, v>>] > 0

\* foreign key Like.videoId -> Video.id: tx.like.create is rejected
ForeignKeyViolation(v) == v \notin videos

\* tx.like.delete on a row that is not there: "Record to delete does not exist"
RecordNotFound_Ignored(u, v) == FALSE
RecordNotFound(u, v) == likeRows[<<u, v>>] = 0

\* rows removed by the DELETE of tx.like.delete
DeletedRows(u, v) == IF likeRows[<<u, v>>] > 0 THEN 1 ELSE 0

\* likeCount: { increment: 1 } / { decrement: 1 }
Increment_Twice(n) == n + 2
Increment(n) == n + 1

Decrement_Skipped(n) == n
Decrement(n) == n - 1

\* Another transaction holds an uncommitted insert or delete of the Like row
\* (u, v): the statement of request p on that key waits for it to end.
KeyLocked(p, u, v) ==
    \E q \in Requests \ {p} :
        /\ tx[q].like # 0
        /\ req[q].userId = u
        /\ req[q].videoId = v

\* Another transaction holds an uncommitted update of Video row v: the update
\* of request p waits for it to end, then reads the committed likeCount.
VideoRowLocked_Never(p, v) == FALSE
VideoRowLocked(p, v) ==
    \E q \in Requests \ {p} :
        /\ tx[q].upd
        /\ req[q].videoId = v

\* The store after COMMIT of request p's transaction: both pending writes.
StoreAfterCommit_RowOnly(p) ==
    [rows  |-> [likeRows EXCEPT ![<<req[p].userId, req[p].videoId>>] = @ + tx[p].like],
     count |-> likeCount]
StoreAfterCommit(p) ==
    LET u == req[p].userId
        v == req[p].videoId
    IN  [rows  |-> [likeRows EXCEPT ![<<u, v>>] = @ + tx[p].like],
         count |-> IF tx[p].upd THEN [likeCount EXCEPT ![v] = tx[p].count]
                   ELSE likeCount]

\* The store after ROLLBACK of request p's transaction: no pending write.
StoreAfterRollback_Partial(p) ==
    [rows  |-> [likeRows EXCEPT ![<<req[p].userId, req[p].videoId>>] = @ + tx[p].like],
     count |-> likeCount]
StoreAfterRollback(p) == [rows |-> likeRows, count |-> likeCount]

\* ------------------------------------------------------- handler endings
Finish(p, res, at) ==
    /\ pc' = [pc EXCEPT ![p] = "done"]
    /\ result' = [result EXCEPT ![p] = res]
    /\ stage' = [stage EXCEPT ![p] = at]
    /\ tx' = [tx EXCEPT ![p] = NoTx]

\* The callback of $transaction throws: ROLLBACK, the error leaves the
\* procedure uncaught.
Abort(p, at) ==
    /\ likeRows' = StoreAfterRollback(p).rows
    /\ likeCount' = StoreAfterRollback(p).count
    /\ Finish(p, "INTERNAL_SERVER_ERROR", at)

\* ------------------------------------------------------------- video.like
\* The existence pre-check, outside the transaction.
LikeCall(p, u, v) ==
    /\ pc[p] = "idle"
    /\ req' = [req EXCEPT ![p] = [kind |-> "like", userId |-> u, videoId |-> v]]
    /\ IF ExistingLike(u, v)
       THEN Finish(p, "CONFLICT", "precheck")
       ELSE /\ pc' = [pc EXCEPT ![p] = "like_create"]
            /\ UNCHANGED <<result, stage, tx>>
    /\ UNCHANGED <<videos, likeRows, likeCount, likeCountBefore, createdAt, resp, videoRow, clientVars>>

\* tx.like.create
LikeTxCreate(p) ==
    /\ pc[p] = "like_create"
    /\ ~KeyLocked(p, req[p].userId, req[p].videoId)
    /\ IF \/ ForeignKeyViolation(req[p].videoId)
          \/ UniqueViolation(req[p].userId, req[p].videoId)
       THEN Abort(p, "create")
       ELSE /\ tx' = [tx EXCEPT ![p].like = 1]
            /\ pc' = [pc EXCEPT ![p] = "like_update"]
            /\ UNCHANGED <<likeRows, likeCount, result, stage>>
    /\ UNCHANGED <<videos, req, likeCountBefore, createdAt, resp, videoRow, clientVars>>

\* tx.video.update({ likeCount: { increment: 1 } })
LikeTxUpdate(p) ==
    /\ pc[p] = "like_update"
    /\ ~VideoRowLocked(p, req[p].videoId)
    /\ IF req[p].videoId \notin videos
       THEN Abort(p, "update")
       ELSE /\ tx' = [tx EXCEPT ![p].upd = TRUE,
                                ![p].count = Increment(likeCount[req[p].videoId])]
            /\ pc' = [pc EXCEPT ![p] = "like_commit"]
            /\ UNCHANGED <<likeRows, likeCount, result, stage>>
    /\ UNCHANGED <<videos, req, likeCountBefore, createdAt, resp, videoRow, clientVars>>

\* the callback returns: COMMIT, then return { success: true }
LikeTxCommit(p) ==
    /\ pc[p] = "like_commit"
    /\ likeRows' = StoreAfterCommit(p).rows
    /\ likeCount' = StoreAfterCommit(p).count
    /\ Finish(p, "success", "commit")
    /\ UNCHANGED <<videos, req, likeCountBefore, createdAt, resp, videoRow, clientVars>>

\* ----------------------------------------------------------- video.unlike
UnlikeCall(p, u, v) ==
    /\ pc[p] = "idle"
    /\ req' = [req EXCEPT ![p] = [kind |-> "unlike", userId |-> u, videoId |-> v]]
    /\ IF ~ExistingLike(u, v)
       THEN Finish(p, "NOT_FOUND", "precheck")
       ELSE /\ pc' = [pc EXCEPT ![p] = "unlike_delete"]
            /\ UNCHANGED <<result, stage, tx>>
    /\ UNCHANGED <<videos, likeRows, likeCount, likeCountBefore, createdAt, resp, videoRow, clientVars>>

\* tx.like.delete
UnlikeTxDelete(p) ==
    /\ pc[p] = "unlike_delete"
    /\ ~KeyLocked(p, req[p].userId, req[p].videoId)
    /\ IF RecordNotFound(req[p].userId, req[p].videoId)
       THEN Abort(p, "delete")
       ELSE /\ tx' = [tx EXCEPT ![p].like = 0 - DeletedRows(req[p].userId, req[p].videoId)]
            /\ pc' = [pc EXCEPT ![p] = "unlike_update"]
            /\ UNCHANGED <<likeRows, likeCount, result, stage>>
    /\ UNCHANGED <<videos, req, likeCountBefore, createdAt, resp, videoRow, clientVars>>

\* tx.video.update({ likeCount: { decrement: 1 } })
UnlikeTxUpdate(p) ==
    /\ pc[p] = "unlike_update"
    /\ ~VideoRowLocked(p, req[p].videoId)
    /\ IF req[p].videoId \notin videos
       THEN Abort(p, "update")
       ELSE /\ tx' = [tx EXCEPT ![p].upd = TRUE,
                                ![p].count = Decrement(likeCount[req[p].videoId])]
            /\ pc' = [pc EXCEPT ![p] = "unlike_commit"]
            /\ UNCHANGED <<likeRows, likeCount, result, stage>>
    /\ UNCHANGED <<videos, req, likeCountBefore, createdAt, resp, videoRow, clientVars>>

UnlikeTxCommit(p) ==
    /\ pc[p] = "unlike_commit"
    /\ likeRows' = StoreAfterCommit(p).rows
    /\ likeCount' = StoreAfterCommit(p).count
    /\ Finish(p, "success", "commit")
    /\ UNCHANGED <<videos, req, likeCountBefore, createdAt, resp, videoRow, clientVars>>

\* The statement after the row mutation (or the COMMIT) fails in the store:
\* the callback throws, the transaction is rolled back.  (A failure of the
\* first statement ends like its rejection in LikeTxCreate / UnlikeTxDelete.)
TxStatementFails(p) ==
    /\ pc[p] \in {"like_update", "like_commit", "unlike_update", "unlike_commit"}
    /\ Abort(p, "store")
    /\ UNCHANGED <<videos, req, likeCountBefore, createdAt, resp, videoRow, clientVars>>

\* --------------------------------------------------- video.createMetadata
\* ctx.db.video.create: one new Video row, likeCount at its default 0.
CreateVideo_ResetsCounts(u, link) ==
    /\ videos # VideoId
    /\ LET id == CHOOSE x \in VideoId \ videos : \A y \in VideoId \ videos : x <= y
       IN  /\ videos' = videos \cup {id}
           /\ likeCount' = [v \in VideoId |-> 0]
           /\ videoRow' = [videoRow EXCEPT ![id] = [userId |-> u, url |-> link]]
CreateVideo(u, link) ==
    /\ videos # VideoId
    /\ LET id == CHOOSE x \in VideoId \ videos : \A y \in VideoId \ videos : x <= y
       IN  /\ videos' = videos \cup {id}
           /\ likeCount' = [likeCount EXCEPT ![id] = 0]
           /\ videoRow' = [videoRow EXCEPT ![id] = [userId |-> u, url |-> link]]

\* createMetadata({ url: link }) by the signed-in user u, seen from the store
CreateMetadata(u, link) ==
    /\ CreateVideo(u, link)
    /\ UNCHANGED <<likeRows, pc, req, tx, result, stage, likeCountBefore, createdAt, resp,
                   clientVars>>

\* ---------------------------------------------------------- specification
\* A store the router has produced before the requests arrive: all videos but
\* one exist, and nobody or the first user has liked each of them.
\* The ledger never reads createdAt: its rows are taken as created within one
\* tick of the clock.
OneTick == [v \in VideoId |-> 1]

LikedByFirst(n, vs) ==
    [k \in Pair |-> IF k[1] <= n /\ k[2] \in vs THEN 1 ELSE 0]

Init ==
    /\ videos = 1..(NumVideos - 1)
    /\ \E n \in 0..1 : likeRows = LikedByFirst(n, videos)
    /\ likeCount = [v \in VideoId |-> RowsOf(likeRows, v)]
    /\ pc = [p \in 1..NumRequests |-> "idle"]
    /\ req = [p \in 1..NumRequests |-> NoReq]
    /\ tx = [p \in 1..NumRequests |-> NoTx]
    /\ result = [p \in 1..NumRequests |-> "none"]
    /\ stage = [p \in 1..NumRequests |-> "none"]
    /\ likeCountBefore = likeCount
    /\ createdAt = OneTick
    /\ resp = [p \in 1..NumRequests |-> NoResp]
    /\ videoRow = SeedRows(videos)
    /\ ClientIdle

Next ==
    \/ \E p \in Requests, u \in User, v \in VideoId : LikeCall(p, u, v)
    \/ \E p \in Requests : LikeTxCreate(p)
    \/ \E p \in Requests : LikeTxUpdate(p)
    \/ \E p \in Requests : LikeTxCommit(p)
    \/ \E p \in Requests, u \in User, v \in VideoId : UnlikeCall(p, u, v)
    \/ \E p \in Requests : UnlikeTxDelete(p)
    \/ \E p \in Requests : UnlikeTxUpdate(p)
    \/ \E p \in Requests : UnlikeTxCommit(p)
    \/ \E p \in Requests : TxStatementFails(p)
    \/ CreateMetadata(RaceUser, FirstUrl)

Spec == Init /\ [][Next]_vars

\* ------------------------------------------------- concurrent-call scenarios
\* RaceCalls requests, all by RaceUser on RaceVideo; the store does not fail.
\* Other users may have liked any video before.
RaceStores(own) ==
    {rows \in [Pair -> 0..1] : rows[<<RaceUser, RaceVideo>>] = own}

InitRace(own) ==
    /\ videos = VideoId
    /\ likeRows \in RaceStores(own)
    /\ likeCount = [v \in VideoId |-> RowsOf(likeRows, v)]
    /\ pc = [p \in 1..RaceCalls |-> "idle"]
    /\ req = [p \in 1..RaceCalls |-> NoReq]
    /\ tx = [p \in 1..RaceCalls |-> NoTx]
    /\ result = [p \in 1..RaceCalls |-> "none"]
    /\ stage = [p \in 1..RaceCalls |-> "none"]
    /\ likeCountBefore = likeCount
    /\ createdAt = OneTick
    /\ resp = [p \in 1..RaceCalls |-> NoResp]
    /\ videoRow = SeedRows(videos)
    /\ ClientIdle

InitLikeRace == InitRace(0)

NextLikeRace ==
    \/ \E p \in Requests : LikeCall(p, RaceUser, RaceVideo)
    \/ \E p \in Requests : LikeTxCreate(p)
    \/ \E p \in Requests : LikeTxUpdate(p)
    \/ \E p \in Requests : LikeTxCommit(p)

SpecLikeRace == InitLikeRace /\ [][NextLikeRace]_vars

InitUnlikeRace == InitRace(1)

NextUnlikeRace ==
    \/ \E p \in Requests : UnlikeCall(p, RaceUser, RaceVideo)
    \/ \E p \in Requests : UnlikeTxDelete(p)
    \/ \E p \in Requests : UnlikeTxUpdate(p)
    \/ \E p \in Requests : UnlikeTxCommit(p)

SpecUnlikeRace == InitUnlikeRace /\ [][NextUnlikeRace]_vars

\* ------------------------------------------------------------- video.feed
\* The feed reads the Video rows newest first.  PostgreSQL leaves the order
\* of rows of equal createdAt open, query by query.  Prisma applies a cursor
\* on a non-unique ordering to the ordered rows: it drops the rows before the
\* row of the cursor id, keeps that row, and takes `take` rows from there.
\* All of the handler's statements are reads; it is one step.
MaxTime == 2
Time    == 1..MaxTime

MinLimit     == 1
MaxLimit     == 20
DefaultLimit == 10

\* ctx.session is null: no authenticated caller
Anonymous == 0
\* cursor: null / undefined
NoCursor  == 0
\* limit: undefined, or no input at all
NoLimit   == 0 - 1

\* limit: z.number().min(1).max(20)
LimitAccepted_NoMax(l) == l = NoLimit \/ MinLimit <= l
LimitAccepted(l) == l = NoLimit \/ (MinLimit <= l /\ l <= MaxLimit)

\* .default(10); input?.limit ?? 10
EffectiveLimit(l) == IF l = NoLimit THEN DefaultLimit ELSE l

\* orderBy: { createdAt: "desc" }
OrderedByCreatedAtDesc(ord) ==
    \A i, j \in DOMAIN ord : i < j => createdAt[ord[i]] >= createdAt[ord[j]]

\* The orders in which the store may return the rows vs for that orderBy.
RowOrders(vs) ==
    {ord \in [1..Cardinality(vs) -> vs] :
        /\ \A i, j \in DOMAIN ord : i # j => ord[i] # ord[j]
        /\ OrderedByCreatedAtDesc(ord)}

\* cursor: { id: cursor }, without skip: the rows from the cursor row on, that
\* row included; no row when no row has that id.
RECURSIVE FromCursor(_, _)
FromCursor(ord, cursor) ==
    IF ord = <<>> THEN <<>>
    ELSE IF Head(ord) = cursor THEN ord
    ELSE FromCursor(Tail(ord), cursor)

Take(rows, n) == SubSeq(rows, 1, IF Len(rows) < n THEN Len(rows) ELSE n)

\* ctx.db.video.findMany({ orderBy, take, cursor }): ids of the rows returned
FindManyVideos_MissingIsFirst(ord, cursor, take) ==
    Take(IF cursor = NoCursor \/ FromCursor(ord, cursor) = <<>>
         THEN ord ELSE FromCursor(ord, cursor), take)
FindManyVideos(ord, cursor, take) ==
    Take(IF cursor = NoCursor THEN ord ELSE FromCursor(ord, cursor), take)

\* if (items.length > limit) { const next = items.pop()!; nextCursor = next.id }
HasNext_AtLimit(items, limit) == Len(items) >= limit
HasNext(items, limit) == Len(items) > limit

PageItems(items, limit) ==
    IF HasNext(items, limit) THEN SubSeq(items, 1, Len(items) - 1) ELSE items

NextCursor_LastReturned(items, limit) ==
    IF HasNext(items, limit) THEN items[Len(items) - 1] ELSE NoCursor
NextCursor(items, limit) ==
    IF HasNext(items, limit) THEN items[Len(items)] ELSE NoCursor

\* isLiked = !!(await ctx.db.like.findUnique(userId_videoId)), false without
\* a session
IsLiked_ByAnyone(viewer, v) == \E u \in User : likeRows[<<u, v>>] > 0
IsLiked(viewer, v) == viewer # Anonymous /\ likeRows[<<viewer, v>>] > 0

\* items.map(async (video) => ({ ...video, isLiked }))
Enrich_LikedOnly(items, viewer) ==
    LET kept == IF viewer = Anonymous THEN items
                ELSE SelectSeq(items, LAMBDA v : IsLiked(viewer, v))
    IN  [i \in DOMAIN kept |-> [id |-> kept[i], isLiked |-> IsLiked(viewer, kept[i])]]
Enrich(items, viewer) ==
    [i \in DOMAIN items |-> [id |-> items[i], isLiked |-> IsLiked(viewer, items[i])]]

\* return { videos, nextCursor }.  order and take are not part of the reply:
\* the order in which the store held the rows for this query, and the take
\* the handler asked for.
FeedResponse(ord, viewer, cursor, limit) ==
    LET items == FindManyVideos(ord, cursor, limit + 1)
    IN  [kind       |-> "feed",
         videos     |-> Enrich(PageItems(items, limit), viewer),
         nextCursor |-> NextCursor(items, limit),
         order      |-> ord,
         take       |-> limit + 1]

\* ------------------------------------------------------------ procedures
\* The procedures built on protectedProcedure; feed is a publicProcedure.
Protected_LikePublic == {"createMetadata", "unlike", "userLikes"}
Protected == {"createMetadata", "like", "unlike", "userLikes"}

\* protectedProcedure lets a call through only with a session.
SessionRequired(kind) == kind \in Protected

\* A call without a session.  protectedProcedure throws UNAUTHORIZED before
\* the handler runs; a handler other than feed's reads ctx.session.user.id,
\* which throws on a null session.
AnonymousCall(p, kind) ==
    /\ pc[p] = "idle"
    /\ req' = [req EXCEPT ![p] = [kind |-> kind, userId |-> Anonymous, videoId |-> 0]]
    /\ IF SessionRequired(kind)
       THEN Finish(p, "UNAUTHORIZED", "session")
       ELSE Finish(p, "INTERNAL_SERVER_ERROR", "session")
    /\ UNCHANGED <<videos, likeRows, likeCount, likeCountBefore, createdAt, resp, videoRow, clientVars>>

\* video.feed with input { cursor, limit } (l = NoLimit: limit left out)
FeedCall(p, viewer, cursor, l) ==
    /\ pc[p] = "idle"
    /\ viewer = Anonymous => ~SessionRequired("feed")
    /\ req' = [req EXCEPT ![p] = [kind |-> "feed", userId |-> viewer, videoId |-> 0,
                                  cursor |-> cursor, limit |-> l]]
    /\ IF ~LimitAccepted(l)
       THEN /\ Finish(p, "BAD_REQUEST", "input")
            /\ UNCHANGED resp
       ELSE /\ \E ord \in RowOrders(videos) :
                  resp' = [resp EXCEPT ![p] =
                              FeedResponse(ord, viewer, cursor, EffectiveLimit(l))]
            /\ Finish(p, "success", "query")
    /\ UNCHANGED <<videos, likeRows, likeCount, likeCountBefore, createdAt, videoRow, clientVars>>

\* const userId = input?.userId ?? ctx.session.user.id
LikesTarget_Caller(u, target) == u
LikesTarget(u, target) == IF target = Anonymous THEN u ELSE target

\* video.userLikes with input { userId } (target = Anonymous: userId left out)
UserLikesCall(p, u, target) ==
    /\ pc[p] = "idle"
    /\ req' = [req EXCEPT ![p] = [kind |-> "userLikes", userId |-> u, videoId |-> 0,
                                  target |-> target]]
    /\ LET userId == LikesTarget(u, target)
       IN  resp' = [resp EXCEPT ![p] =
                       [kind     |-> "userLikes",
                        videoIds |-> {v \in VideoId : likeRows[<<userId, v>>] > 0}]]
    /\ Finish(p, "success", "query")
    /\ UNCHANGED <<videos, likeRows, likeCount, likeCountBefore, createdAt, videoRow, clientVars>>

\* -------------------------------------------------------- paging the feed
\* A client pages through the feed of a store that does not change: call 1
\* with the client's input, call p + 1 with the nextCursor of reply p and the
\* same limit, as long as a nextCursor comes back (Feed.tsx, handleLoadMore).
MaxPages == NumVideos + 2

Viewer       == User \cup {Anonymous}
CursorInputs == {NoCursor} \cup VideoId
LimitInputs  == {NoLimit} \cup ((MinLimit - 1)..(NumVideos + 1)) \cup {MaxLimit, MaxLimit + 1}

InitFeed ==
    /\ \E n \in 0..NumVideos :
          /\ videos = 1..n
          /\ createdAt \in {t \in [VideoId -> Time] : \A v \in VideoId \ (1..n) : t[v] = 1}
          /\ \E liked \in SUBSET (1..n) : likeRows = LikedByFirst(1, liked)
    /\ likeCount = [v \in VideoId |-> RowsOf(likeRows, v)]
    /\ pc = [p \in 1..MaxPages |-> "idle"]
    /\ req = [p \in 1..MaxPages |-> NoReq]
    /\ tx = [p \in 1..MaxPages |-> NoTx]
    /\ result = [p \in 1..MaxPages |-> "none"]
    /\ stage = [p \in 1..MaxPages |-> "none"]
    /\ likeCountBefore = likeCount
    /\ resp = [p \in 1..MaxPages |-> NoResp]
    /\ videoRow = SeedRows(videos)
    /\ ClientIdle

FeedFirstPage(viewer, cursor, l) == FeedCall(1, viewer, cursor, l)

FeedNextPage(p) ==
    /\ p > 1
    /\ pc[p - 1] = "done"
    /\ result[p - 1] = "success"
    /\ resp[p - 1].nextCursor # NoCursor
    /\ FeedCall(p, req[1].userId, resp[p - 1].nextCursor, req[1].limit)

NextFeed ==
    \/ \E viewer \in Viewer, cursor \in CursorInputs, l \in LimitInputs :
          FeedFirstPage(viewer, cursor, l)
    \/ \E p \in Requests : FeedNextPage(p)

SpecFeed == InitFeed /\ [][NextFeed]_vars

\* ------------------------------------------ queries, creation, no session
\* Calls that are not likes or unlikes by a signed-in user: the queries,
\* createMetadata, and calls without a session.  The first user has liked
\* every video of the store.  Rows get their createdAt from a clock that does
\* not run backwards: the rows of the store were created one tick apart, the
\* row createMetadata adds in the tick of the newest row or in the next one.
Procedure == {"createMetadata", "feed", "like", "unlike", "userLikes"}

ApiCursors == {NoCursor, RaceVideo}
ApiLimits  == {NoLimit, MinLimit}
ApiTargets == {Anonymous, RaceUser}

ClockTicks ==
    {t \in [VideoId -> Time] :
        /\ \A v \in VideoId : v < NumVideos => t[v] = v
        /\ \A v, w \in VideoId : v < w => t[v] <= t[w]}

InitApi ==
    /\ videos = 1..(NumVideos - 1)
    /\ createdAt \in ClockTicks
    /\ likeRows = LikedByFirst(1, videos)
    /\ likeCount = [v \in VideoId |-> RowsOf(likeRows, v)]
    /\ pc = [p \in 1..NumRequests |-> "idle"]
    /\ req = [p \in 1..NumRequests |-> NoReq]
    /\ tx = [p \in 1..NumRequests |-> NoTx]
    /\ result = [p \in 1..NumRequests |-> "none"]
    /\ stage = [p \in 1..NumRequests |-> "none"]
    /\ likeCountBefore = likeCount
    /\ resp = [p \in 1..NumRequests |-> NoResp]
    /\ videoRow = SeedRows(videos)
    /\ ClientIdle

NextApi ==
    \/ CreateMetadata(RaceUser, FirstUrl)
    \/ \E p \in Requests, kind \in Procedure \ {"feed"} : AnonymousCall(p, kind)
    \/ \E p \in Requests, viewer \in Viewer, cursor \in ApiCursors, l \in ApiLimits :
          FeedCall(p, viewer, cursor, l)
    \/ \E p \in Requests, u \in User, target \in ApiTargets : UserLikesCall(p, u, target)

SpecApi == InitApi /\ [][NextApi]_vars

\* ------------------------------------------------------------------ claims
ReqPair(p) == <<req[p].userId, req[p].videoId>>

NoTxInFlight == \A p \in Requests : pc[p] \notin InTx

AllDone == \A p \in Requests : pc[p] = "done"

Failed(p) == result[p] \in {"CONFLICT", "NOT_FOUND", "INTERNAL_SERVER_ERROR"}

\* C1: whenever no like/unlike transaction is in flight, each video's
\* likeCount equals the number of Like rows that reference the video.
C1_CounterAccuracy ==
    NoTxInFlight => \A v \in videos : likeCount[v] = RowsOf(likeRows, v)

\* a video liked by two users, after a successful and a failed call, no
\* transaction in flight
C1_Witness ==
    /\ NoTxInFlight
    /\ \E v \in videos : likeCount[v] = 2
    /\ \E p \in Requests : result[p] = "success"
    /\ \E p \in Requests : Failed(p)

\* C2: at most one Like row exists for each (user id, video id) pair.
C2_Uniqueness == \A k \in Pair : likeRows[k] <= 1

\* the constraint rejected the insert of a call that had passed the pre-check
C2_Witness ==
    \E p \in Requests :
        /\ req[p].kind = "like"
        /\ stage[p] = "create"
        /\ req[p].videoId \in videos
        /\ likeRows[ReqPair(p)] = 1

\* C3: RaceCalls concurrent Like calls of one user for one video without a
\* Like row end with exactly one success, every other call failing with
\* CONFLICT, and likeCount exactly 1 higher than before.
C3_LikeRace ==
    AllDone =>
        /\ Cardinality({p \in Requests : result[p] = "success"}) = 1
        /\ \A p \in Requests : result[p] \in {"success", "CONFLICT"}
        /\ likeCount[RaceVideo] = likeCountBefore[RaceVideo] + 1

\* C4: the Like-row change and the likeCount change of one transaction reach
\* the store together or not at all; an aborted transaction changes neither.
C4_AtomicPair ==
    [][/\ \A v \in VideoId :
             RowsOf(likeRows', v) - RowsOf(likeRows, v) = likeCount'[v] - likeCount[v]
       /\ \A p \in Requests :
             (pc[p] \in InTx /\ result'[p] = "INTERNAL_SERVER_ERROR")
                 => (likeRows' = likeRows /\ likeCount' = likeCount)]_vars

\* a transaction was aborted after its row mutation
C4_Witness ==
    \E p \in Requests :
        /\ result[p] = "INTERNAL_SERVER_ERROR"
        /\ stage[p] = "store"

\* C5: likeCount of every video is never negative.
C5_NonNegative == \A v \in VideoId : likeCount[v] >= 0

\* an Unlike that passed the pre-check found its row deleted, at likeCount 0
C5_Witness ==
    \E p \in Requests :
        /\ req[p].kind = "unlike"
        /\ stage[p] = "delete"
        /\ likeCount[req[p].videoId] = 0

\* C6: Unlike called when no Like row exists for the pair fails with
\* NOT_FOUND and leaves every Like row and every likeCount unchanged.
C6_UnlikeMissing ==
    [][\A p \in Requests :
          (/\ pc[p] = "idle"
           /\ req'[p].kind = "unlike"
           /\ likeRows[<<req'[p].userId, req'[p].videoId>>] = 0)
          => /\ pc'[p] = "done"
             /\ result'[p] = "NOT_FOUND"
             /\ likeRows' = likeRows
             /\ likeCount' = likeCount]_vars

\* an Unlike answered NOT_FOUND while the user likes another video
C6_Witness ==
    \E p \in Requests :
        /\ req[p].kind = "unlike"
        /\ result[p] = "NOT_FOUND"
        /\ \E w \in VideoId : likeRows[<<req[p].userId, w>>] > 0

\* C7: RaceCalls concurrent Unlike calls of one user for one video with a Like
\* row end with exactly one success, every other call failing with
\* NOT_FOUND, the row absent and likeCount exactly 1 lower than before.
C7_UnlikeRace ==
    AllDone =>
        /\ Cardinality({p \in Requests : result[p] = "success"}) = 1
        /\ \A p \in Requests : result[p] \in {"success", "NOT_FOUND"}
        /\ likeRows[<<RaceUser, RaceVideo>>] = 0
        /\ likeCount[RaceVideo] = likeCountBefore[RaceVideo] - 1

\* C8: Like called when a Like row exists for the pair fails with CONFLICT
\* and leaves every Like row and every likeCount unchanged.
C8_LikeExisting ==
    [][\A p \in Requests :
          (/\ pc[p] = "idle"
           /\ req'[p].kind = "like"
           /\ likeRows[<<req'[p].userId, req'[p].videoId>>] > 0)
          => /\ pc'[p] = "done"
             /\ result'[p] = "CONFLICT"
             /\ likeRows' = likeRows
             /\ likeCount' = likeCount]_vars

\* a repeated Like answered CONFLICT, likeCount still 1
C8_Witness ==
    \E p \in Requests :
        /\ req[p].kind = "like"
        /\ result[p] = "CONFLICT"
        /\ likeCount[req[p].videoId] = 1

\* C9: a successful Like adds exactly one Like row, for its pair, and raises
\* that video's likeCount by exactly 1; nothing else in the store changes.
C9_LikeSuccess ==
    [][\A p \in Requests :
          (pc[p] = "like_commit" /\ result'[p] = "success")
          => /\ likeRows[ReqPair(p)] = 0
             /\ likeRows' = [likeRows EXCEPT ![ReqPair(p)] = 1]
             /\ likeCount' = [likeCount EXCEPT ![req[p].videoId] = @ + 1]
             /\ videos' = videos]_vars

\* a Like succeeded on a video another user already liked
C9_Witness ==
    \E p \in Requests :
        /\ req[p].kind = "like"
        /\ result[p] = "success"
        /\ likeCount[req[p].videoId] = 2

\* C10: a successful Unlike removes the Like row of its pair and lowers that
\* video's likeCount by exactly 1; nothing else in the store changes.
C10_UnlikeSuccess ==
    [][\A p \in Requests :
          (pc[p] = "unlike_commit" /\ result'[p] = "success")
          => /\ likeRows[ReqPair(p)] = 1
             /\ likeRows' = [likeRows EXCEPT ![ReqPair(p)] = 0]
             /\ likeCount' = [likeCount EXCEPT ![req[p].videoId] = @ - 1]
             /\ videos' = videos]_vars

\* an Unlike succeeded on a video that another user still likes
C10_Witness ==
    \E p \in Requests :
        /\ req[p].kind = "unlike"
        /\ result[p] = "success"
        /\ likeCount[req[p].videoId] = 1

\* C11: a Like whose videoId references no Video row fails with NOT_FOUND, and
\* leaves the Like rows and every likeCount as they were.
C11_LikeMissingVideo ==
    \A p \in Requests :
        (pc[p] = "done" /\ req[p].kind = "like" /\ req[p].videoId \notin videos)
        => /\ result[p] = "NOT_FOUND"
           /\ likeRows[ReqPair(p)] = 0
           /\ likeCount[req[p].videoId] = 0

\* ids of the videos of a reply, in the reply's order
Ids(vs) == [i \in DOMAIN vs |-> vs[i].id]

\* ids of the videos of the replies to calls 1..k, concatenated
RECURSIVE ChainIds(_)
ChainIds(k) == IF k = 0 THEN <<>> ELSE ChainIds(k - 1) \o Ids(resp[k].videos)

\* the client started without a cursor and call k returned nextCursor = null
ChainEnded(k) ==
    /\ req[1].kind = "feed"
    /\ req[1].cursor = NoCursor
    /\ pc[k] = "done"
    /\ result[k] = "success"
    /\ resp[k].nextCursor = NoCursor

CeilDiv(n, l) == (n + l - 1) \div l

\* C12: paging a fixed set of N videos with limit L from no cursor to
\* nextCursor = null returns every video exactly once, in descending
\* createdAt order (videos of equal createdAt in either order), in ceil(N/L)
\* pages (one empty page when N = 0).
C12_Completeness ==
    \A k \in Requests :
        ChainEnded(k) =>
            LET ids == ChainIds(k)
                N   == Cardinality(videos)
                L   == EffectiveLimit(req[1].limit)
            IN  /\ Len(ids) = N
                /\ {ids[i] : i \in DOMAIN ids} = videos
                /\ \A i, j \in DOMAIN ids :
                      i < j => createdAt[ids[i]] >= createdAt[ids[j]]
                /\ k = IF N = 0 THEN 1 ELSE CeilDiv(N, L)

\* call p is a feed call that returned a page
FeedReply(p) == req[p].kind = "feed" /\ pc[p] = "done" /\ result[p] = "success"

\* C13 as stated: a non-null nextCursor is the id of the last video of the
\* returned page, and the call made with it returns none of that page's
\* videos and not the cursor video.
C13_LastReturned ==
    \A p \in Requests :
        (FeedReply(p) /\ resp[p].nextCursor # NoCursor)
        => LET page == Ids(resp[p].videos)
           IN  /\ page # <<>>
               /\ resp[p].nextCursor = page[Len(page)]

\* C13: a non-null nextCursor is the id of the video that follows the last
\* video of the returned page in the order the store returned the rows (the
\* first video left out of the page), and the call made with that cursor
\* resumes at that video: it is the first video of the page that call returns.
C13_NextCursor ==
    \A p \in Requests :
        (FeedReply(p) /\ resp[p].nextCursor # NoCursor)
        => LET page == Ids(resp[p].videos)
               ord  == resp[p].order
               next == resp[p].nextCursor
           IN  /\ page # <<>>
               /\ \A i \in DOMAIN page : page[i] # next
               /\ \E i \in DOMAIN ord :
                     /\ i < Len(ord)
                     /\ ord[i] = page[Len(page)]
                     /\ ord[i + 1] = next
               /\ (p + 1 \in Requests /\ pc[p + 1] = "done")
                  => /\ FeedReply(p + 1)
                     /\ req[p + 1].cursor = next
                     /\ resp[p + 1].videos # <<>>
                     /\ resp[p + 1].videos[1].id = next

\* a page came back with a nextCursor, and the call made with
\* it has returned
C13_Witness ==
    \E p \in Requests :
        /\ FeedReply(p)
        /\ resp[p].videos # <<>>
        /\ resp[p].nextCursor # NoCursor
        /\ p + 1 \in Requests
        /\ pc[p + 1] = "done"

\* C14: videos of identical createdAt are ordered by id, the same way in every
\* page, so that paging from no cursor to nextCursor = null neither skips nor
\* repeats a video.
C14_TieBreaking ==
    \A k \in Requests :
        ChainEnded(k) =>
            LET ids  == ChainIds(k)
                Tied == {ij \in (DOMAIN ids) \X (DOMAIN ids) :
                            /\ ij[1] < ij[2]
                            /\ createdAt[ids[ij[1]]] = createdAt[ids[ij[2]]]}
            IN  /\ \A v \in videos : \E i \in DOMAIN ids : ids[i] = v
                /\ \A i, j \in DOMAIN ids : i # j => ids[i] # ids[j]
                /\ \/ \A ij \in Tied : ids[ij[1]] < ids[ij[2]]
                   \/ \A ij \in Tied : ids[ij[1]] > ids[ij[2]]

\* C15: in a feed reply computed against an unchanging store, a video returned
\* to a signed-in viewer has isLiked = true exactly when a Like row exists for
\* (viewer, video); every video returned to a caller without a session has
\* isLiked = false.
C15_Enrichment ==
    \A p \in Requests :
        FeedReply(p) =>
            \A i \in DOMAIN resp[p].videos :
                LET video == resp[p].videos[i]
                IN  IF req[p].userId \in User
                    THEN video.isLiked <=> likeRows[<<req[p].userId, video.id>>] >= 1
                    ELSE video.isLiked = FALSE

\* a signed-in viewer got a page with a video they like and one they do not
C15_Witness ==
    \E p \in Requests :
        /\ FeedReply(p)
        /\ req[p].userId \in User
        /\ \E i, j \in DOMAIN resp[p].videos :
              resp[p].videos[i].isLiked /\ ~resp[p].videos[j].isLiked

\* C16: two feed calls with the same cursor and limit, answered from the same
\* rows in the same order, return the same sequence of video ids and the same
\* nextCursor, whoever the two viewers are.
C16_Independence ==
    \A p, q \in Requests :
        ( /\ FeedReply(p)
          /\ FeedReply(q)
          /\ req[p].cursor = req[q].cursor
          /\ EffectiveLimit(req[p].limit) = EffectiveLimit(req[q].limit)
          /\ resp[p].order = resp[q].order )
        => /\ Ids(resp[p].videos) = Ids(resp[q].videos)
           /\ resp[p].nextCursor = resp[q].nextCursor

\* two viewers got the same page with different isLiked flags
C16_Witness ==
    \E p, q \in Requests :
        /\ FeedReply(p)
        /\ FeedReply(q)
        /\ req[p].userId # req[q].userId
        /\ req[p].cursor = req[q].cursor
        /\ EffectiveLimit(req[p].limit) = EffectiveLimit(req[q].limit)
        /\ resp[p].order = resp[q].order
        /\ \E i \in DOMAIN resp[p].videos :
              resp[p].videos[i].isLiked /\ ~resp[q].videos[i].isLiked

\* C17: feed accepts a limit from 1 to 20 and takes 10 when the limit is left
\* out; any other limit is rejected with BAD_REQUEST and no videos are
\* returned; a reply holds at most limit videos, never more than 20.
C17_Limit ==
    \A p \in Requests :
        (req[p].kind = "feed" /\ pc[p] = "done") =>
            LET l == req[p].limit
            IN  IF l = NoLimit \/ (MinLimit <= l /\ l <= MaxLimit)
                THEN /\ result[p] = "success"
                     /\ resp[p].take = (IF l = NoLimit THEN DefaultLimit ELSE l) + 1
                     /\ Len(resp[p].videos) < resp[p].take
                     /\ Len(resp[p].videos) <= MaxLimit
                ELSE /\ result[p] = "BAD_REQUEST"
                     /\ resp[p] = NoResp

\* a call with limit 21 was rejected
C17_Witness ==
    \E p \in Requests :
        /\ req[p].kind = "feed"
        /\ req[p].limit = MaxLimit + 1
        /\ result[p] = "BAD_REQUEST"
        /\ videos # {}

\* C18: a feed call whose cursor is the id of no Video row does not fail: it
\* returns no videos and nextCursor = null.
C18_MissingCursor ==
    \A p \in Requests :
        ( /\ req[p].kind = "feed"
          /\ pc[p] = "done"
          /\ result[p] # "BAD_REQUEST"
          /\ req[p].cursor # NoCursor
          /\ req[p].cursor \notin videos )
        => /\ result[p] = "success"
           /\ resp[p].videos = <<>>
           /\ resp[p].nextCursor = NoCursor

\* a call with the id of no row as cursor has returned, while the store holds
\* videos
C18_Witness ==
    \E p \in Requests :
        /\ FeedReply(p)
        /\ req[p].cursor # NoCursor
        /\ req[p].cursor \notin videos
        /\ videos # {}

\* C19: like, unlike, userLikes and createMetadata called without a session
\* fail with UNAUTHORIZED and leave every Video and Like row as it was; feed
\* called without a session succeeds.
C19_Unauthenticated ==
    [][\A p \in Requests :
          (pc[p] = "idle" /\ pc'[p] = "done" /\ req'[p].userId = Anonymous)
          => IF req'[p].kind = "feed"
             THEN result'[p] = "success"
             ELSE /\ req'[p].kind \in {"like", "unlike", "userLikes", "createMetadata"}
                  /\ result'[p] = "UNAUTHORIZED"
                  /\ videos' = videos
                  /\ likeRows' = likeRows
                  /\ likeCount' = likeCount]_vars

\* a like without a session was refused and a feed call without a session
\* returned videos
C19_Witness ==
    \E p, q \in Requests :
        /\ req[p].kind = "like"
        /\ req[p].userId = Anonymous
        /\ result[p] = "UNAUTHORIZED"
        /\ FeedReply(q)
        /\ req[q].userId = Anonymous
        /\ resp[q].videos # <<>>

\* C20: createMetadata, feed and userLikes leave every Like row and the
\* likeCount of every existing video as they were.
C20_LikeCountWriters ==
    [][( \/ videos' # videos
         \/ \E p \in Requests :
               pc[p] = "idle" /\ req'[p].kind \in {"feed", "userLikes"} )
       => /\ likeRows' = likeRows
          /\ \A v \in videos : likeCount'[v] = likeCount[v]]_vars

\* a video was created and feed and userLikes have returned, while a video of
\* the store is liked
C20_Witness ==
    /\ videos = VideoId
    /\ \E p, q \in Requests :
          /\ FeedReply(p)
          /\ req[q].kind = "userLikes"
          /\ result[q] = "success"
    /\ \E v \in videos : likeCount[v] >= 1

\* ------------------------------------------------------------------ C21

\* a userLikes call that has just been answered
UserLikesStep(p) ==
    /\ pc[p] = "idle"
    /\ pc'[p] = "done"
    /\ req'[p].kind = "userLikes"
    /\ result'[p] = "success"

\* C21: userLikes returns exactly the ids of the videos for which a Like row
\* of the target user exists, the target being the given userId or, when none
\* is given, the caller; the call changes no row of the store.
C21_UserLikes ==
    [][\A p \in Requests :
          UserLikesStep(p) =>
              /\ \A v \in VideoId :
                    v \in resp'[p].videoIds <=>
                        \/ /\ req'[p].target # Anonymous
                           /\ likeRows[<<req'[p].target, v>>] > 0
                        \/ /\ req'[p].target = Anonymous
                           /\ likeRows[<<req'[p].userId, v>>] > 0
              /\ UNCHANGED <<videos, likeRows, likeCount, videoRow>>]_vars

\* a user asked for the likes of another user, who has some, and another call
\* without a userId returned the caller's own
C21_Witness ==
    \E p, q \in Requests :
        /\ pc[p] = "done" /\ req[p].kind = "userLikes" /\ result[p] = "success"
        /\ req[p].target \in User \ {req[p].userId}
        /\ resp[p].videoIds # {}
        /\ pc[q] = "done" /\ req[q].kind = "userLikes" /\ result[q] = "success"
        /\ req[q].target = Anonymous
        /\ resp[q].videoIds # resp[p].videoIds

\* ------------------------------------------------------------------ C24

\* the rows that were there for feed call p to return: all rows of the order
\* of its query from the cursor row on, all rows when it had no cursor
RowsFrom(p) ==
    LET ord   == resp[p].order
        c     == req[p].cursor
        start == IF c = NoCursor THEN 1
                 ELSE IF \E i \in DOMAIN ord : ord[i] = c
                      THEN CHOOSE i \in DOMAIN ord : ord[i] = c
                      ELSE Len(ord) + 1
    IN  SubSeq(ord, start, Len(ord))

\* C24: feed asks the store for limit + 1 rows; when row limit + 1 exists it
\* is left out of the page and its id is the nextCursor; when there are fewer
\* rows all of them are the page and nextCursor is null.  So nextCursor is
\* non-null exactly when a video remains after the page.
C24_PaginationStep ==
    \A p \in Requests :
        FeedReply(p)
        => LET limit == EffectiveLimit(req[p].limit)
               rows  == RowsFrom(p)
               page  == Ids(resp[p].videos)
           IN  /\ resp[p].take = limit + 1
               /\ IF Len(rows) >= limit + 1
                  THEN /\ page = SubSeq(rows, 1, limit)
                       /\ resp[p].nextCursor = rows[limit + 1]
                  ELSE /\ page = rows
                       /\ resp[p].nextCursor = NoCursor
               /\ resp[p].nextCursor # NoCursor <=> Len(rows) > Len(page)

\* one call left a row out and returned its id, another returned all its rows
C24_Witness ==
    \E p, q \in Requests :
        /\ FeedReply(p)
        /\ resp[p].nextCursor # NoCursor
        /\ resp[p].videos # <<>>
        /\ FeedReply(q)
        /\ resp[q].nextCursor = NoCursor
        /\ resp[q].videos # <<>>

\* ------------------------------------------------------------------ C28
\* Like calls on RaceVideo, one per user at most, each by a user who has not
\* liked it; the store does not fail.  Any user may have liked any video
\* before.
InitLikeCrowd ==
    /\ videos = VideoId
    /\ likeRows \in [Pair -> 0..1]
    /\ likeCount = [v \in VideoId |-> RowsOf(likeRows, v)]
    /\ pc = [p \in 1..NumUsers |-> "idle"]
    /\ req = [p \in 1..NumUsers |-> NoReq]
    /\ tx = [p \in 1..NumUsers |-> NoTx]
    /\ result = [p \in 1..NumUsers |-> "none"]
    /\ stage = [p \in 1..NumUsers |-> "none"]
    /\ likeCountBefore = likeCount
    /\ createdAt = OneTick
    /\ resp = [p \in 1..NumUsers |-> NoResp]
    /\ videoRow = SeedRows(videos)
    /\ ClientIdle

\* user u has not liked RaceVideo and has no call under way or answered
NewLiker(u) ==
    /\ likeRows[<<u, RaceVideo>>] = 0
    /\ \A q \in Requests : req[q].userId # u

CrowdLikeCall(p, u) == NewLiker(u) /\ LikeCall(p, u, RaceVideo)

NextLikeCrowd ==
    \/ \E p \in Requests, u \in User : CrowdLikeCall(p, u)
    \/ \E p \in Requests : LikeTxCreate(p)
    \/ \E p \in Requests : LikeTxUpdate(p)
    \/ \E p \in Requests : LikeTxCommit(p)

SpecLikeCrowd == InitLikeCrowd /\ [][NextLikeCrowd]_vars

\* C28: Like calls on one video by distinct users who had not liked it all
\* succeed in any interleaving: none is answered with an error, none waits
\* for ever, and once k of them have been answered and none is under way the
\* video's likeCount is exactly k higher than before.
C28_NoLostUpdate ==
    /\ \A p \in Requests : pc[p] = "done" => result[p] = "success"
    /\ (\E p \in Requests : pc[p] \in InTx)
       => ENABLED (\E p \in Requests : LikeTxCreate(p) \/ LikeTxUpdate(p) \/ LikeTxCommit(p))
    /\ NoTxInFlight
       => likeCount[RaceVideo] =
              likeCountBefore[RaceVideo] + Cardinality({p \in Requests : pc[p] = "done"})

\* two calls, by two users, have committed and none is under way
C28_Witness ==
    /\ NoTxInFlight
    /\ Cardinality({p \in Requests : pc[p] = "done" /\ stage[p] = "commit"}) >= 2
    /\ likeCount[RaceVideo] >= likeCountBefore[RaceVideo] + 2

\* ------------------------------------------------------------------ C29
\* url: z.string().min(1)
EmptyUrl == 0
UrlAccepted(link) == link # EmptyUrl

\* video.createMetadata with input { url: link }, called by the signed-in
\* user u: the input check, then one video.create with userId taken from the
\* session.
CreateMetadataCall_FirstOwner(p, u, link) ==
    /\ pc[p] = "idle"
    /\ req' = [req EXCEPT ![p] = [kind |-> "createMetadata", userId |-> u, videoId |-> 0,
                                  url |-> link]]
    /\ IF UrlAccepted(link)
       THEN /\ CreateVideo(RaceUser, link)
            /\ Finish(p, "success", "create")
       ELSE /\ Finish(p, "BAD_REQUEST", "input")
            /\ UNCHANGED <<videos, likeCount, videoRow>>
    /\ UNCHANGED <<likeRows, likeCountBefore, createdAt, resp, clientVars>>
CreateMetadataCall(p, u, link) ==
    /\ pc[p] = "idle"
    /\ req' = [req EXCEPT ![p] = [kind |-> "createMetadata", userId |-> u, videoId |-> 0,
                                  url |-> link]]
    /\ IF UrlAccepted(link)
       THEN /\ CreateVideo(u, link)
            /\ Finish(p, "success", "create")
       ELSE /\ Finish(p, "BAD_REQUEST", "input")
            /\ UNCHANGED <<videos, likeCount, videoRow>>
    /\ UNCHANGED <<likeRows, likeCountBefore, createdAt, resp, clientVars>>

\* Calls of createMetadata, like and unlike by any users, like and unlike on
\* RaceVideo, which may not exist yet; the store does not fail.
LastUrl == CHOOSE x \in Url : \A y \in Url : x >= y
OwnUrls == {EmptyUrl, FirstUrl, LastUrl}

InitOwn ==
    /\ \E n \in 0..(NumVideos - 1) : videos = 1..n
    /\ \E n \in 0..1 : likeRows = LikedByFirst(n, videos)
    /\ likeCount = [v \in VideoId |-> RowsOf(likeRows, v)]
    /\ pc = [p \in 1..NumRequests |-> "idle"]
    /\ req = [p \in 1..NumRequests |-> NoReq]
    /\ tx = [p \in 1..NumRequests |-> NoTx]
    /\ result = [p \in 1..NumRequests |-> "none"]
    /\ stage = [p \in 1..NumRequests |-> "none"]
    /\ likeCountBefore = likeCount
    /\ createdAt = OneTick
    /\ resp = [p \in 1..NumRequests |-> NoResp]
    /\ videoRow = SeedRows(videos)
    /\ ClientIdle

NextOwn ==
    \/ \E p \in Requests, u \in User, link \in OwnUrls : CreateMetadataCall(p, u, link)
    \/ \E p \in Requests, u \in User : LikeCall(p, u, RaceVideo)
    \/ \E p \in Requests : LikeTxCreate(p)
    \/ \E p \in Requests : LikeTxUpdate(p)
    \/ \E p \in Requests : LikeTxCommit(p)
    \/ \E p \in Requests, u \in User : UnlikeCall(p, u, RaceVideo)
    \/ \E p \in Requests : UnlikeTxDelete(p)
    \/ \E p \in Requests : UnlikeTxUpdate(p)
    \/ \E p \in Requests : UnlikeTxCommit(p)

SpecOwn == InitOwn /\ [][NextOwn]_vars

\* a createMetadata call that has just been answered
CreateStep(p) ==
    /\ pc[p] = "idle"
    /\ pc'[p] = "done"
    /\ req'[p].kind = "createMetadata"

\* C29: a successful createMetadata call adds exactly one Video row, owned by
\* the caller, with the url given, and no Like row references it; a refused
\* one adds none; no call changes an existing Video row.  A Like row changes
\* only at the commit of a like or unlike call of the user the row belongs
\* to, for the video that call names.
C29_OwnRows ==
    [][/\ \A p \in Requests :
             CreateStep(p) =>
                 IF result'[p] = "success"
                 THEN \E id \in VideoId \ videos :
                         /\ videos' = videos \cup {id}
                         /\ videoRow'[id] = [userId |-> req'[p].userId, url |-> req'[p].url]
                         /\ \A u \in User : likeRows'[<<u, id>>] = 0
                 ELSE videos' = videos /\ videoRow' = videoRow
       /\ videos' # videos => \E p \in Requests : CreateStep(p)
       /\ \A v \in videos : videoRow'[v] = videoRow[v]
       /\ \A k \in Pair :
             likeRows'[k] # likeRows[k] =>
                 \E p \in Requests :
                     /\ pc[p] \in {"like_commit", "unlike_commit"}
                     /\ pc'[p] = "done"
                     /\ req[p].userId = k[1]
                     /\ req[p].videoId = k[2]]_vars

\* a user other than the first created a video, which then got a like from
\* another user, while the rows of the first user's video stayed as they were
C29_Witness ==
    \E p, q \in Requests, v \in videos :
        /\ pc[p] = "done" /\ req[p].kind = "createMetadata" /\ result[p] = "success"
        /\ req[p].userId # RaceUser
        /\ videoRow[v] = [userId |-> req[p].userId, url |-> req[p].url]
        /\ pc[q] = "done" /\ req[q].kind = "like" /\ result[q] = "success"
        /\ req[q].userId # req[p].userId

\* ------------------------------------------------------------ upload flow
\* The upload form (UploadForm.tsx) and the two routes it posts to
\* (/api/upload/presign, /api/upload/local).  A content type is the sequence
\* of its parts; the empty one is what a browser reports for a file it does
\* not know.
MAX_FILE_SIZE == 20 * 1024 * 1024

FileTypes == {<<"video", "/", "mp4">>, <<"image", "/", "png">>, <<>>}
FileSizes == {MAX_FILE_SIZE, MAX_FILE_SIZE + 1}
Files     == [type : FileTypes, size : FileSizes]
NoFile    == [type |-> <<>>, size |-> 0 - 1]

\* contentType.startsWith("video/")
StartsWithVideo(t) == Len(t) >= 2 /\ t[1] = "video" /\ t[2] = "/"

\* handleFileChange: the file becomes the form's file only when it passes
\* both checks
FileAccepted_AnySize(f) == StartsWithVideo(f.type)
FileAccepted(f) == StartsWithVideo(f.type) /\ ~(f.size > MAX_FILE_SIZE)

\* disabled={uploading || !file}
SubmitEnabled_Always == TRUE
SubmitEnabled == ~upload.uploading /\ upload.file # NoFile

\* response.ok
ResponseOk_Any(status) == TRUE
ResponseOk(status) == status = "ok"

\* One run of handleSubmit per submission; run k posts createMetadata as
\* request k.
NoRun == [pc |-> "none", file |-> NoFile, local |-> FALSE, presigned |-> FALSE,
          url |-> EmptyUrl, failedAt |-> "none"]

\* POST /api/upload/presign for run k: the body of the answer.  An error
\* answer carries none of the fields the form reads.
PresignStatus(f, up) ==
    IF ~StartsWithVideo(f.type) THEN "bad_request"
    ELSE IF ~up THEN "error"
    ELSE "ok"

PresignBody(k, status) ==
    IF status = "ok"
    THEN [local |-> ~upload.s3, presigned |-> upload.s3, url |-> k]
    ELSE [local |-> FALSE, presigned |-> FALSE, url |-> EmptyUrl]

\* POST /api/upload/local
LocalStatus(f, up) ==
    IF f.size > MAX_FILE_SIZE THEN "bad_request"
    ELSE IF ~StartsWithVideo(f.type) THEN "bad_request"
    ELSE IF ~up THEN "error"
    ELSE "ok"

\* catch (err) { setError(...); setUploading(false) }
RunFails(k, at) ==
    upload' = [upload EXCEPT !.runs[k].pc = "failed",
                             !.runs[k].failedAt = at,
                             !.error = "upload",
                             !.uploading = FALSE]

\* handleFileChange
SelectFile(f) ==
    /\ upload.page = "form"
    /\ upload' = IF ~StartsWithVideo(f.type) THEN [upload EXCEPT !.error = "type"]
                 ELSE IF ~FileAccepted(f) THEN [upload EXCEPT !.error = "size"]
                 ELSE [upload EXCEPT !.file = f, !.error = "none"]
    /\ UNCHANGED <<videos, likeRows, likeCount, pc, req, tx, result, stage,
                   likeCountBefore, createdAt, resp, videoRow, card, view>>

\* the "Remove video" button
RemoveFile ==
    /\ upload.page = "form"
    /\ upload.file # NoFile
    /\ upload' = [upload EXCEPT !.file = NoFile]
    /\ UNCHANGED <<videos, likeRows, likeCount, pc, req, tx, result, stage,
                   likeCountBefore, createdAt, resp, videoRow, card, view>>

\* handleSubmit up to its first await
Submit ==
    /\ upload.page = "form"
    /\ SubmitEnabled
    /\ upload.submits < MaxSubmits
    /\ LET k == upload.submits + 1
       IN  upload' = IF upload.file = NoFile
                     THEN [upload EXCEPT !.error = "upload"]
                     ELSE [upload EXCEPT !.submits = k,
                                         !.uploading = TRUE,
                                         !.error = "none",
                                         !.runs[k] = [NoRun EXCEPT !.pc = "presign",
                                                                   !.file = upload.file]]
    /\ UNCHANGED <<videos, likeRows, likeCount, pc, req, tx, result, stage,
                   likeCountBefore, createdAt, resp, videoRow, card, view>>

\* the answer of /api/upload/presign arrives
Presign(k, up) ==
    /\ upload.runs[k].pc = "presign"
    /\ LET status == PresignStatus(upload.runs[k].file, up)
           body   == PresignBody(k, status)
       IN  IF ResponseOk(status)
           THEN upload' = [upload EXCEPT !.runs[k].pc = "store",
                                         !.runs[k].local = body.local,
                                         !.runs[k].presigned = body.presigned,
                                         !.runs[k].url = body.url]
           ELSE RunFails(k, "presign")
    /\ UNCHANGED <<videos, likeRows, likeCount, pc, req, tx, result, stage,
                   likeCountBefore, createdAt, resp, videoRow, card, view>>

\* the answer of /api/upload/local arrives; finalUrl is the url it returns
StoreLocal(k, up) ==
    /\ upload.runs[k].pc = "store"
    /\ upload.runs[k].local
    /\ LET f      == upload.runs[k].file
           status == LocalStatus(f, up)
       IN  IF ResponseOk(status)
           THEN upload' = [upload EXCEPT
                    !.runs[k].pc = "metadata",
                    !.runs[k].url = IF status = "ok" THEN upload.runs[k].url ELSE EmptyUrl,
                    !.blobs = IF status = "ok"
                              THEN @ \cup {[url |-> upload.runs[k].url, file |-> f]}
                              ELSE @]
           ELSE RunFails(k, "store")
    /\ UNCHANGED <<videos, likeRows, likeCount, pc, req, tx, result, stage,
                   likeCountBefore, createdAt, resp, videoRow, card, view>>

\* the answer of the PUT to the presigned url arrives
StoreS3(k, up) ==
    /\ upload.runs[k].pc = "store"
    /\ ~upload.runs[k].local
    /\ LET f      == upload.runs[k].file
           status == IF up THEN "ok" ELSE "error"
       IN  IF upload.runs[k].presigned /\ ResponseOk(status)
           THEN upload' = [upload EXCEPT
                    !.runs[k].pc = "metadata",
                    !.blobs = IF status = "ok"
                              THEN @ \cup {[url |-> upload.runs[k].url, file |-> f]}
                              ELSE @]
           ELSE RunFails(k, "store")
    /\ UNCHANGED <<videos, likeRows, likeCount, pc, req, tx, result, stage,
                   likeCountBefore, createdAt, resp, videoRow, card, view>>

\* createMetadata.mutateAsync({ url: finalUrl }) reaches the server; the
\* session may have ended since the page was opened
UploadMetadata(k, signedIn) ==
    /\ upload.runs[k].pc = "metadata"
    /\ IF signedIn
       THEN CreateMetadataCall(k, upload.user, upload.runs[k].url)
       ELSE AnonymousCall(k, "createMetadata")

\* the answer of createMetadata arrives: router.push("/feed"), or the catch
UploadSettle(k) ==
    /\ upload.runs[k].pc = "metadata"
    /\ pc[k] = "done"
    /\ IF result[k] = "success"
       THEN upload' = [upload EXCEPT !.runs[k].pc = "created", !.page = "feed"]
       ELSE RunFails(k, "metadata")
    /\ UNCHANGED <<videos, likeRows, likeCount, pc, req, tx, result, stage,
                   likeCountBefore, createdAt, resp, videoRow, card, view>>

\* The form is open, signed in as any user, no video uploaded yet; the server
\* is configured for object storage or not.
InitUpload ==
    /\ videos = {}
    /\ likeRows = [k \in Pair |-> 0]
    /\ likeCount = [v \in VideoId |-> 0]
    /\ pc = [p \in 1..MaxSubmits |-> "idle"]
    /\ req = [p \in 1..MaxSubmits |-> NoReq]
    /\ tx = [p \in 1..MaxSubmits |-> NoTx]
    /\ result = [p \in 1..MaxSubmits |-> "none"]
    /\ stage = [p \in 1..MaxSubmits |-> "none"]
    /\ likeCountBefore = likeCount
    /\ createdAt = OneTick
    /\ resp = [p \in 1..MaxSubmits |-> NoResp]
    /\ videoRow = SeedRows(videos)
    /\ \E u \in User, s3 \in BOOLEAN :
          upload = [page |-> "form", user |-> u, s3 |-> s3, file |-> NoFile,
                    uploading |-> FALSE, error |-> "none", submits |-> 0,
                    runs |-> [k \in 1..MaxSubmits |-> NoRun], blobs |-> {}]
    /\ card = NoCard
    /\ view = NoView

NextUpload ==
    \/ \E f \in Files : SelectFile(f)
    \/ RemoveFile
    \/ Submit
    \/ \E k \in Requests, up \in BOOLEAN : Presign(k, up)
    \/ \E k \in Requests, up \in BOOLEAN : StoreLocal(k, up)
    \/ \E k \in Requests, up \in BOOLEAN : StoreS3(k, up)
    \/ \E k \in Requests, signedIn \in BOOLEAN : UploadMetadata(k, signedIn)
    \/ \E k \in Requests : UploadSettle(k)

SpecUpload == InitUpload /\ [][NextUpload]_vars

\* ------------------------------------------------- C22, C23, C27 (upload)

\* the payload of run k is in storage under the run's url
Stored(k) == [url |-> upload.runs[k].url, file |-> upload.runs[k].file] \in upload.blobs

\* run k has posted createMetadata
MetadataPosted(k) == pc[k] # "idle"

\* C22: createMetadata is posted only by a run whose storage step succeeded,
\* so every Video row has its payload in storage; a run that failed at the
\* presign request or at the storage upload posted no createMetadata and no
\* Video row carries its url.
C22_StoreThenMetadata ==
    /\ \A k \in Requests : MetadataPosted(k) => Stored(k)
    /\ \A v \in videos : \E b \in upload.blobs : b.url = videoRow[v].url
    /\ \A k \in Requests :
          upload.runs[k].failedAt \in {"presign", "store"}
          => /\ ~MetadataPosted(k)
             /\ \A v \in videos : videoRow[v].url # k

\* one run failed at the storage upload, a later one stored its payload and
\* created the Video row
C22_Witness ==
    \E j, k \in Requests :
        /\ upload.runs[j].failedAt = "store"
        /\ upload.runs[k].pc = "created"
        /\ \E v \in videos : videoRow[v].url = upload.runs[k].url

\* the file passes the check of the content type and the check of the size
Checked(f) == StartsWithVideo(f.type) /\ f.size <= MAX_FILE_SIZE

InFlight(k) == upload.runs[k].pc \in {"presign", "store", "metadata"}

\* C27: at most one run of handleSubmit is under way at any time; while one
\* is under way, and for good once one has succeeded, uploading is set, which
\* disables the submit control; so createMetadata is posted at most once per
\* submission and no two Video rows come from one submission.
C27_OneRowPerSubmission ==
    /\ Cardinality({k \in Requests : InFlight(k)}) <= 1
    /\ \A k \in Requests :
          (InFlight(k) \/ upload.runs[k].pc = "created") => upload.uploading
    /\ \A k \in Requests : MetadataPosted(k) => k <= upload.submits
    /\ \A v, w \in videos : videoRow[v].url = videoRow[w].url => v = w
    /\ Cardinality(videos) <= upload.submits

\* a submission failed, the control was enabled again, and the next
\* submission created its Video row
C27_Witness ==
    \E j, k \in Requests :
        /\ j < k
        /\ upload.runs[j].pc = "failed"
        /\ upload.runs[k].pc = "created"
        /\ Cardinality(videos) = 1
        /\ upload.uploading

\* -------------------------------------------------------------- video card
\* One card of the feed page (VideoCard.tsx), showing RaceVideo to the
\* viewer of the page.  The first user has the site open in another tab too.
\* The like button is disabled while a mutation of the card is pending, so
\* the card has one request under way at most.
MaxClicks == NumRequests

\* setIsLiked(previousLiked); setLikeCount(previousCount)
Revert_LikedOnly(c) == [c EXCEPT !.isLiked = c.previousLiked]
Revert(c) == [c EXCEPT !.isLiked = c.previousLiked, !.likeCount = c.previousCount]

\* handleLike up to its await: nothing without a session; else the values
\* are saved, the card is flipped, and the mutation is chosen by the value
\* isLiked had
CardClick(p) ==
    /\ card.pc = "shown"
    /\ card.clicks < MaxClicks
    /\ pc[p] = "idle"
    /\ card' = IF card.session = Anonymous
               THEN [card EXCEPT !.clicks = @ + 1]
               ELSE [card EXCEPT !.clicks = @ + 1,
                                 !.pc = "pending",
                                 !.slot = p,
                                 !.kind = IF card.isLiked THEN "unlike" ELSE "like",
                                 !.previousLiked = card.isLiked,
                                 !.previousCount = card.likeCount,
                                 !.isLiked = ~card.isLiked,
                                 !.likeCount = card.likeCount + (IF card.isLiked THEN 0 - 1 ELSE 1)]
    /\ UNCHANGED <<videos, likeRows, likeCount, pc, req, tx, result, stage,
                   likeCountBefore, createdAt, resp, videoRow, upload, view>>

\* the card's request is kept for the card
Reserved(p) == card.pc = "pending" /\ card.slot = p

\* likeMutation.mutateAsync / unlikeMutation.mutateAsync reaches the server
CardRequest ==
    /\ card.pc = "pending"
    /\ IF card.kind = "like"
       THEN LikeCall(card.slot, card.session, RaceVideo)
       ELSE UnlikeCall(card.slot, card.session, RaceVideo)

\* the answer arrives: the optimistic values stay, or the catch block runs
CardSettle ==
    /\ card.pc = "pending"
    /\ pc[card.slot] = "done"
    /\ card' = IF result[card.slot] = "success"
               THEN [card EXCEPT !.pc = "shown"]
               ELSE [Revert(card) EXCEPT !.pc = "shown"]
    /\ UNCHANGED <<videos, likeRows, likeCount, pc, req, tx, result, stage,
                   likeCountBefore, createdAt, resp, videoRow, upload, view>>

\* the first user likes or unlikes RaceVideo in the other tab
OtherTabLike(p)   == ~Reserved(p) /\ LikeCall(p, RaceUser, RaceVideo)
OtherTabUnlike(p) == ~Reserved(p) /\ UnlikeCall(p, RaceUser, RaceVideo)

\* The card as the feed response made it: isLiked and likeCount of the store
\* at that time; without a session isLiked is false.
CardOf(viewer) ==
    [pc |-> "shown", session |-> viewer, clicks |-> 0, slot |-> 0, kind |-> "none",
     isLiked |-> IsLiked(viewer, RaceVideo), likeCount |-> likeCount[RaceVideo],
     previousLiked |-> FALSE, previousCount |-> 0]

\* any users like RaceVideo; the other videos have no likes
CardStores == {rows \in [Pair -> 0..1] : \A k \in Pair : k[2] # RaceVideo => rows[k] = 0}

InitCard ==
    /\ videos = VideoId
    /\ likeRows \in CardStores
    /\ likeCount = [v \in VideoId |-> RowsOf(likeRows, v)]
    /\ pc = [p \in 1..NumRequests |-> "idle"]
    /\ req = [p \in 1..NumRequests |-> NoReq]
    /\ tx = [p \in 1..NumRequests |-> NoTx]
    /\ result = [p \in 1..NumRequests |-> "none"]
    /\ stage = [p \in 1..NumRequests |-> "none"]
    /\ likeCountBefore = likeCount
    /\ createdAt = OneTick
    /\ resp = [p \in 1..NumRequests |-> NoResp]
    /\ videoRow = SeedRows(videos)
    /\ upload = NoUpload
    /\ \E viewer \in {Anonymous, RaceUser} : card = CardOf(viewer)
    /\ view = NoView

NextCard ==
    \/ \E p \in Requests : CardClick(p)
    \/ CardRequest
    \/ CardSettle
    \/ \E p \in Requests : OtherTabLike(p)
    \/ \E p \in Requests : OtherTabUnlike(p)
    \/ \E p \in Requests : LikeTxCreate(p)
    \/ \E p \in Requests : LikeTxUpdate(p)
    \/ \E p \in Requests : LikeTxCommit(p)
    \/ \E p \in Requests : UnlikeTxDelete(p)
    \/ \E p \in Requests : UnlikeTxUpdate(p)
    \/ \E p \in Requests : UnlikeTxCommit(p)
    \/ \E p \in Requests : TxStatementFails(p)

SpecCard == InitCard /\ [][NextCard]_vars

\* ------------------------------------------------------------- C25, C26

\* the card's request has just settled
CardSettled == card.pc = "pending" /\ card'.pc = "shown"

\* C25 as stated: when a like or unlike request of the card has settled, the
\* card's isLiked equals the existence of the Like row of the viewer for the
\* video; a Like refused with CONFLICT leaves the card liked, an Unlike
\* refused with NOT_FOUND leaves it unliked.
C25_Reconciled ==
    [][CardSettled =>
          /\ card'.isLiked = (likeRows'[<<card.session, RaceVideo>>] > 0)
          /\ result[card.slot] = "CONFLICT" => card'.isLiked
          /\ result[card.slot] = "NOT_FOUND" => ~card'.isLiked]_vars

\* a click on the like button by a signed-in viewer
CardClicked == card.pc = "shown" /\ card'.pc = "pending"

\* a click on the like button without a session
CardClickIgnored == card.session = Anonymous /\ card'.clicks # card.clicks

\* C26: a click by a signed-in viewer flips the card's isLiked and moves its
\* likeCount by +1 (like) or -1 (unlike) at once, and the request sent is the
\* one chosen; when the request fails both values are again what they were
\* before the click; when it succeeds they stay.  A click without a session
\* changes neither value and sends no request.
C26_OptimisticToggle ==
    [][/\ CardClicked =>
             /\ card'.isLiked = ~card.isLiked
             /\ card'.likeCount = IF card.isLiked THEN card.likeCount - 1
                                                  ELSE card.likeCount + 1
             /\ card'.previousLiked = card.isLiked
             /\ card'.previousCount = card.likeCount
             /\ card'.kind = IF card.isLiked THEN "unlike" ELSE "like"
       /\ (card.pc = "pending" /\ card'.pc = "pending") =>
             /\ card'.isLiked = card.isLiked
             /\ card'.likeCount = card.likeCount
             /\ card'.previousLiked = card.previousLiked
             /\ card'.previousCount = card.previousCount
             /\ pc'[card.slot] # pc[card.slot] /\ pc[card.slot] = "idle"
                => req'[card.slot].kind = card.kind
       /\ CardSettled =>
             IF result[card.slot] = "success"
             THEN /\ card'.isLiked = card.isLiked
                  /\ card'.likeCount = card.likeCount
             ELSE /\ card'.isLiked = card.previousLiked
                  /\ card'.likeCount = card.previousCount
       /\ CardClickIgnored =>
             /\ card'.isLiked = card.isLiked
             /\ card'.likeCount = card.likeCount
             /\ card'.pc = "shown"
             /\ pc' = pc /\ req' = req]_vars

\* a like of the card has succeeded and a later unlike of the card has
\* failed: the card shows liked, one above the count it started with
C26_Witness ==
    /\ card.pc = "shown"
    /\ card.clicks >= 2
    /\ card.kind = "unlike"
    /\ Failed(card.slot)
    /\ card.isLiked
    /\ card.likeCount = likeCountBefore[RaceVideo] + 1

\* --------------------------------------------------------------- feed page
\* The Feed component (Feed.tsx): useQuery({ cursor, limit }), the effect on
\* [data, cursor] that fills allVideos, and Load More.  The page asks for 10
\* videos at a time; ViewLimit scales that page size down to the number of
\* videos of the model.  The viewer may like a video while the page is open.
\* A refetch whose answer equals the data held keeps the data (structural
\* sharing of the query cache), so no effect runs; an answer that differs is
\* new data.
ViewLimit == 1

MaxFetches == NumVideos + 2
LikeSlot   == MaxFetches

NoData == [videos |-> <<>>, nextCursor |-> NoCursor, none |-> TRUE]
DataOf(p) == [videos |-> resp[p].videos, nextCursor |-> resp[p].nextCursor, none |-> FALSE]

\* The next request of the page.  The query of a cursor has one request
\* under way at most.
AnswerPending ==
    \E q \in Requests :
        q < LikeSlot /\ q > view.seen /\ pc[q] = "done" /\ req[q].cursor = view.cursor
NextFetch(p) ==
    /\ ~AnswerPending
    /\ p < LikeSlot
    /\ pc[p] = "idle"
    /\ \A q \in 1..(p - 1) : pc[q] # "idle"

\* useQuery fetches the page of the current cursor: no data is held for it
ViewFetch(p) ==
    /\ view.data = NoData
    /\ NextFetch(p)
    /\ FeedCall(p, view.viewer, view.cursor, ViewLimit)

\* the query refetches the page of the current cursor (window focus,
\* reconnect, remount)
ViewRefetch(p) ==
    /\ view.data # NoData
    /\ NextFetch(p)
    /\ FeedCall(p, view.viewer, view.cursor, ViewLimit)

\* useEffect(() => { if (data) { cursor === null ? set : append } }, [data, cursor])
EffectOnData(all, cursor, data) ==
    IF cursor = NoCursor THEN data.videos ELSE all \o data.videos

\* The answer of request p arrives for the query of the current cursor.
\* pages is not state of the component: the page last received for each
\* cursor of the chain, in order.
ViewResult(p) ==
    /\ p < LikeSlot
    /\ p > view.seen
    /\ pc[p] = "done"
    /\ result[p] = "success"
    /\ req[p].cursor = view.cursor
    /\ view' = IF DataOf(p) = view.data
               THEN [view EXCEPT !.seen = p]
               ELSE [view EXCEPT
                        !.seen = p,
                        !.data = DataOf(p),
                        !.allVideos = EffectOnData(view.allVideos, view.cursor, DataOf(p)),
                        !.pages = IF view.data = NoData
                                  THEN Append(@, Ids(resp[p].videos))
                                  ELSE [@ EXCEPT ![Len(@)] = Ids(resp[p].videos)]]
    /\ UNCHANGED <<videos, likeRows, likeCount, pc, req, tx, result, stage,
                   likeCountBefore, createdAt, resp, videoRow, upload, card>>

\* handleLoadMore: setCursor(data.nextCursor); the query of the new cursor
\* holds no data yet.  The refetch() it awaits is made before the component
\* renders again, for the query of the old cursor; its answer is not data of
\* the component.
LoadMore ==
    /\ view.data # NoData
    /\ view.data.nextCursor # NoCursor
    /\ view' = [view EXCEPT !.cursor = view.data.nextCursor, !.data = NoData]
    /\ UNCHANGED <<videos, likeRows, likeCount, pc, req, tx, result, stage,
                   likeCountBefore, createdAt, resp, videoRow, upload, card>>

\* the viewer likes a video
ViewerLike(v) == LikeCall(LikeSlot, view.viewer, v)

\* The page has just been opened by a signed-in viewer; every video has a
\* createdAt of its own.
InitView ==
    /\ videos = VideoId
    /\ \E n \in 0..1 : likeRows = LikedByFirst(n, {RaceVideo})
    /\ likeCount = [v \in VideoId |-> RowsOf(likeRows, v)]
    /\ pc = [p \in 1..MaxFetches |-> "idle"]
    /\ req = [p \in 1..MaxFetches |-> NoReq]
    /\ tx = [p \in 1..MaxFetches |-> NoTx]
    /\ result = [p \in 1..MaxFetches |-> "none"]
    /\ stage = [p \in 1..MaxFetches |-> "none"]
    /\ likeCountBefore = likeCount
    /\ createdAt = [v \in VideoId |-> v]
    /\ resp = [p \in 1..MaxFetches |-> NoResp]
    /\ videoRow = SeedRows(videos)
    /\ upload = NoUpload
    /\ card = NoCard
    /\ \E u \in User :
          view = [viewer |-> u, cursor |-> NoCursor, data |-> NoData, allVideos |-> <<>>,
                  pages |-> <<>>, seen |-> 0]

NextView ==
    \/ \E p \in Requests : ViewFetch(p)
    \/ \E p \in Requests : ViewRefetch(p)
    \/ \E p \in Requests : ViewResult(p)
    \/ LoadMore
    \/ \E v \in VideoId : ViewerLike(v)
    \/ \E p \in Requests : LikeTxCreate(p)
    \/ \E p \in Requests : LikeTxUpdate(p)
    \/ \E p \in Requests : LikeTxCommit(p)

SpecView == InitView /\ [][NextView]_vars

\* ------------------------------------------------------------------ C30
RECURSIVE Flatten(_)
Flatten(pages) == IF pages = <<>> THEN <<>> ELSE Head(pages) \o Flatten(Tail(pages))

\* C30 as stated: allVideos holds no video id twice, and it is the pages
\* received for cursor null and for each nextCursor after it, in that order.
C30_Accumulated ==
    /\ \A i, j \in DOMAIN view.allVideos :
          view.allVideos[i].id = view.allVideos[j].id => i = j
    /\ Ids(view.allVideos) = Flatten(view.pages)

====
